---------------------------- MODULE Spec2Model ----------------------------
(***************************************************************************)
(* Model of the LDtk project asset loader of bevy_ecs_ldtk                 *)
(* (src/src/assets/ldtk_project.rs).                                       *)
(*                                                                         *)
(* One load is one invocation of LdtkProjectLoader::load.  Every local of  *)
(* the invocation is a variable indexed by the invocation; the only data   *)
(* common to all invocations are the crate's cargo features.  A load       *)
(* advances one loop iteration at a time, so that loads running on         *)
(* different threads of the host's task pool interleave.                   *)
(*                                                                         *)
(* Option<T> is a sequence of length 0 (None) or 1 (Some), so that         *)
(* Option::into_iter().collect() is the sequence itself.  A path is the    *)
(* sequence of its components.  A HashMap is a function on its key set.    *)
(***************************************************************************)
EXTENDS Naturals, Sequences, FiniteSets

VARIABLES
    features,               \* cargo features of the build
    bytes,                  \* bytes handed to each load
    data,                   \* the parsed LdtkJson
    pc,                     \* position of each load in the function body
    idx,                    \* position of the running for loop
    dependent_asset_paths,  \* Vec<AssetPath> accumulated by load
    tileset_map,            \* HashMap<i32, Handle<Image>>
    int_grid_image_handle,  \* Option<Handle<Image>>
    level_map,              \* HashMap<String, metadata>
    new_asset_paths,        \* dependency list of the last metadata build
    load_context,           \* the LoadContext of the invocation
    warnings,               \* what warn! has logged
    result                  \* what load returned to the host

vars == <<features, bytes, data, pc, idx, dependent_asset_paths, tileset_map,
          int_grid_image_handle, level_map, new_asset_paths, load_context,
          warnings, result>>

-----------------------------------------------------------------------------
(* Bounds and input domains *)

\* total number of tileset definitions and levels in one document
MaxItems == 2

None == << >>
Some(x) == << x >>
IsSome(o) == Len(o) = 1
IsNone(o) == Len(o) = 0
Unwrap(o) == o[1]

Least(S) == CHOOSE i \in S : \A j \in S : i <= j
Greatest(S) == CHOOSE i \in S : \A j \in S : i >= j

SeqsUpTo(S, n) == UNION { [1..k -> S] : k \in 0..n }

TilesetUids == {1, 2}
LevelIids == {"a", "b"}
TilesetRelPath == <<"atlas", "tiles.png">>
BgRelPath == <<"img", "bg.png">>
ExternalRelPath == <<"world", "level.ldtkl">>
ProjectFilePath == <<"levels", "world.ldtk">>

TilesetDefinitions ==
    [uid : TilesetUids,
     identifier : {"Tiles"},
     rel_path : {None, Some(TilesetRelPath)},
     embed_atlas : {None, Some("LdtkIcons")}]

RawLevels ==
    [iid : LevelIids,
     layer_instances : {None, Some(<< >>)},
     bg_rel_path : {None, Some(BgRelPath)},
     external_rel_path : {None, Some(ExternalRelPath)}]

Documents ==
    UNION { [external_levels : BOOLEAN,
             int_grid : BOOLEAN,
             tilesets : [1..t -> TilesetDefinitions],
             levels : SeqsUpTo(RawLevels, MaxItems - t)] : t \in 0..MaxItems }

EmptyDocument ==
    [external_levels |-> FALSE, int_grid |-> FALSE,
     tilesets |-> << >>, levels |-> << >>]

\* what a load can be handed: bytes that deserialize to a document, or not
ByteStrings ==
    { [valid |-> TRUE, json |-> d] : d \in Documents }
        \cup { [valid |-> FALSE, json |-> EmptyDocument] }

Features == [internal_levels : BOOLEAN, external_levels : BOOLEAN]

EmptyMap == [k \in {} |-> {}]

-----------------------------------------------------------------------------
(* Helpers of the loader *)

\* Path::parent of a path with at least one component
PathParent(p) == SubSeq(p, 1, Len(p) - 1)

ldtk_path_to_asset_path(ldtk_path, rel_path) == PathParent(ldtk_path) \o rel_path

\* LoadContext::get_handle: a strong handle identified by the asset path
GetHandle(asset_path) == [id |-> asset_path]

LevelMetadataNew(bg_image, level_indices) ==
    [bg_image |-> bg_image, indices |-> level_indices]

ExternalLevelMetadataNew(level_metadata, external_handle) ==
    [metadata |-> level_metadata, external_handle |-> external_handle]

\* RawLevelAccessor::iter_raw_levels_with_indices on a document whose levels
\* are all root levels: document order, each level with its position
iter_raw_levels_with_indices(d) ==
    [i \in 1..Len(d.levels) |->
        [indices |-> [world |-> None, level |-> i - 1], level |-> d.levels[i]]]

\* LdtkDefs::create_int_grid_image
create_int_grid_image(d) ==
    IF d.int_grid THEN Some("int_grid_image") ELSE None

HashMapInsert(map, key, value) ==
    [k \in (DOMAIN map) \cup {key} |-> IF k = key THEN value ELSE map[k]]


\* one get_handle call, as the LoadContext sees it
HandleRequest(asset_path, origin) == [path |-> asset_path, origin |-> origin]

\* load_level_metadata without the check of layer_instances
load_level_metadata_unchecked(ldtk_path, level_indices, level, expect_level_loaded) ==
    LET bg_image_path ==
            IF IsSome(level.bg_rel_path)
            THEN Some(ldtk_path_to_asset_path(ldtk_path, Unwrap(level.bg_rel_path)))
            ELSE None
        bg_image ==
            IF IsSome(bg_image_path) THEN Some(GetHandle(Unwrap(bg_image_path)))
            ELSE None
    IN  [ok |-> TRUE,
         level_metadata |-> LevelMetadataNew(bg_image, level_indices),
         dependent_asset_paths |-> bg_image_path,
         requests |->
             IF IsSome(bg_image_path)
             THEN << HandleRequest(Unwrap(bg_image_path), "level_bg") >>
             ELSE << >>]

\* load_level_metadata, lines 162-191.  The background handle is requested
\* before layer_instances is looked at.
load_level_metadata(ldtk_path, level_indices, level, expect_level_loaded) ==
    LET bg_image_path ==
            IF IsSome(level.bg_rel_path)
            THEN Some(ldtk_path_to_asset_path(ldtk_path, Unwrap(level.bg_rel_path)))
            ELSE None
        bg_image ==
            IF IsSome(bg_image_path) THEN Some(GetHandle(Unwrap(bg_image_path)))
            ELSE None
        requests ==
            IF IsSome(bg_image_path)
            THEN << HandleRequest(Unwrap(bg_image_path), "level_bg") >>
            ELSE << >>
    IN  IF expect_level_loaded /\ IsNone(level.layer_instances)
        THEN [ok |-> FALSE,
              err |-> "InternalLevelWithNullLayers",
              requests |-> requests]
        ELSE [ok |-> TRUE,
              level_metadata |-> LevelMetadataNew(bg_image, level_indices),
              dependent_asset_paths |-> bg_image_path,
              requests |-> requests]

\* load_external_level_metadata with a null external_rel_path read as the
\* empty relative path instead of an error
load_external_level_metadata_defaulted(ldtk_path, level_indices, level) ==
    LET inner == load_level_metadata(ldtk_path, level_indices, level, FALSE)
        external_level_path ==
            ldtk_path_to_asset_path(
                ldtk_path,
                IF IsSome(level.external_rel_path)
                THEN Unwrap(level.external_rel_path) ELSE << >>)
    IN  [ok |-> TRUE,
         level_metadata |->
             ExternalLevelMetadataNew(inner.level_metadata,
                                      GetHandle(external_level_path)),
         dependent_asset_paths |->
             Append(inner.dependent_asset_paths, external_level_path),
         requests |->
             Append(inner.requests,
                    HandleRequest(external_level_path, "level_external"))]

\* load_external_level_metadata without the push of the external level path
load_external_level_metadata_unpushed(ldtk_path, level_indices, level) ==
    LET inner == load_level_metadata(ldtk_path, level_indices, level, FALSE)
    IN  IF IsNone(level.external_rel_path)
        THEN [ok |-> FALSE,
              err |-> "ExternalLevelWithNullPath",
              requests |-> inner.requests]
        ELSE LET external_level_path ==
                     ldtk_path_to_asset_path(ldtk_path, Unwrap(level.external_rel_path))
             IN  [ok |-> TRUE,
                  level_metadata |->
                      ExternalLevelMetadataNew(inner.level_metadata,
                                               GetHandle(external_level_path)),
                  dependent_asset_paths |-> inner.dependent_asset_paths,
                  requests |->
                      Append(inner.requests,
                             HandleRequest(external_level_path, "level_external"))]

\* load_external_level_metadata with the external level path put first
load_external_level_metadata_path_first(ldtk_path, level_indices, level) ==
    LET inner == load_level_metadata(ldtk_path, level_indices, level, FALSE)
    IN  IF IsNone(level.external_rel_path)
        THEN [ok |-> FALSE,
              err |-> "ExternalLevelWithNullPath",
              requests |-> inner.requests]
        ELSE LET external_level_path ==
                     ldtk_path_to_asset_path(ldtk_path, Unwrap(level.external_rel_path))
             IN  [ok |-> TRUE,
                  level_metadata |->
                      ExternalLevelMetadataNew(inner.level_metadata,
                                               GetHandle(external_level_path)),
                  dependent_asset_paths |->
                      << external_level_path >> \o inner.dependent_asset_paths,
                  requests |->
                      Append(inner.requests,
                             HandleRequest(external_level_path, "level_external"))]

\* load_external_level_metadata, lines 193-219
load_external_level_metadata(ldtk_path, level_indices, level) ==
    LET inner == load_level_metadata(ldtk_path, level_indices, level, FALSE)
    IN  IF ~inner.ok
        THEN inner
        ELSE IF IsNone(level.external_rel_path)
        THEN [ok |-> FALSE,
              err |-> "ExternalLevelWithNullPath",
              requests |-> inner.requests]
        ELSE LET external_level_path ==
                     ldtk_path_to_asset_path(ldtk_path, Unwrap(level.external_rel_path))
                 external_handle == GetHandle(external_level_path)
             IN  [ok |-> TRUE,
                  level_metadata |->
                      ExternalLevelMetadataNew(inner.level_metadata, external_handle),
                  dependent_asset_paths |->
                      Append(inner.dependent_asset_paths, external_level_path),
                  requests |->
                      Append(inner.requests,
                             HandleRequest(external_level_path, "level_external"))]

\* the tileset loop loading the embedded icon atlas like any other image
load_tileset_with_icons(ldtk_path, tileset) ==
    IF IsSome(tileset.rel_path) \/ IsSome(tileset.embed_atlas)
    THEN LET asset_path ==
                 ldtk_path_to_asset_path(
                     ldtk_path,
                     IF IsSome(tileset.rel_path) THEN Unwrap(tileset.rel_path)
                     ELSE << Unwrap(tileset.embed_atlas) >>)
         IN  [paths |-> << asset_path >>,
              entry |-> Some(GetHandle(asset_path)),
              requests |-> << HandleRequest(asset_path, "tileset") >>,
              warned |-> << >>]
    ELSE [paths |-> << >>, entry |-> None, requests |-> << >>,
          warned |-> << <<"null_relative_path", tileset.identifier>> >>]

\* one iteration of the tileset loop, lines 233-245: what it pushes on the
\* dependency list, what it inserts in the tileset map, what it logs
load_tileset(ldtk_path, tileset) ==
    IF IsSome(tileset.rel_path)
    THEN LET asset_path == ldtk_path_to_asset_path(ldtk_path, Unwrap(tileset.rel_path))
         IN  [paths |-> << asset_path >>,
              entry |-> Some(GetHandle(asset_path)),
              requests |-> << HandleRequest(asset_path, "tileset") >>,
              warned |-> << >>]
    ELSE IF IsSome(tileset.embed_atlas)
    THEN [paths |-> << >>, entry |-> None, requests |-> << >>,
          warned |-> << <<"internal_icons_ignored", tileset.identifier>> >>]
    ELSE [paths |-> << >>, entry |-> None, requests |-> << >>,
          warned |-> << <<"null_relative_path", tileset.identifier>> >>]

\* both branches compiled in whatever the features
CapabilityAlwaysEnabled(external_levels) == TRUE

\* the cfg(feature = ...) attributes of the two branches, lines 252-302
CapabilityEnabled(external_levels) ==
    IF external_levels THEN features.external_levels ELSE features.internal_levels

CapabilityError(external_levels) ==
    IF external_levels THEN "ExternalLevelsDisabled" ELSE "InternalLevelsDisabled"

\* let mut level_map = HashMap::new(), lines 254 and 280
NewLevelMap(self) == EmptyMap

\* one iterator kept in the loader and advanced by every load in its loop
LevelCursorOfLoader(self) ==
    Greatest({ idx[l] : l \in { m \in DOMAIN pc : pc[m] = "levels" } } \cup {idx[self]})

\* the iterator of the for loop over the levels, lines 256 and 282
LevelCursor(self) == idx[self]

\* an insert into a map rebuilt at every iteration
LevelMapInsertIntoFresh(map, iid, level_metadata) ==
    HashMapInsert(EmptyMap, iid, level_metadata)

\* an insert that keeps the entry the map already has for the key
LevelMapInsertIfAbsent(map, iid, level_metadata) ==
    IF iid \in DOMAIN map THEN map ELSE HashMapInsert(map, iid, level_metadata)

\* level_map.insert(level.iid.clone(), level_metadata), lines 262 and 288
LevelMapInsert(map, iid, level_metadata) == HashMapInsert(map, iid, level_metadata)

\* both branches building the Standalone variant
NewProjectDataAlwaysStandalone(external_levels, json, map) ==
    [variant |-> "Standalone", json_data |-> json, level_map |-> map]

\* LdtkProjectData::Parent(..) or ::Standalone(..), lines 267 and 293
NewProjectData(external_levels, json, map) ==
    [variant |-> IF external_levels THEN "Parent" ELSE "Standalone",
     json_data |-> json,
     level_map |-> map]

\* LdtkProject::new, lines 266-270 and 292-296
LdtkProjectNew(project_data, tilesets, int_grid) ==
    [data |-> project_data, tileset_map |-> tilesets,
     int_grid_image_handle |-> int_grid]

\* LdtkProjectData::as_standalone and ::as_parent
LdtkProjectData_as_standalone(project_data) ==
    IF project_data.variant = "Standalone"
    THEN [panicked |-> FALSE, view |-> project_data.level_map]
    ELSE [panicked |-> TRUE, view |-> EmptyMap]

LdtkProjectData_as_parent(project_data) ==
    IF project_data.variant = "Parent"
    THEN [panicked |-> FALSE, view |-> project_data.level_map]
    ELSE [panicked |-> TRUE, view |-> EmptyMap]

\* LdtkProject::as_standalone and ::as_parent, lines 99-102 and 113-116
as_standalone(project) == LdtkProjectData_as_standalone(project.data)
as_parent(project) == LdtkProjectData_as_parent(project.data)

-----------------------------------------------------------------------------
(* The state machine *)

NewLoadContext ==
    [path |-> ProjectFilePath, requests |-> << >>,
     labeled |-> {}, default_asset |-> None]

InitLoads(loads) ==
    /\ pc = [l \in loads |-> "parse"]
    /\ data = [l \in loads |-> EmptyDocument]
    /\ idx = [l \in loads |-> 1]
    /\ dependent_asset_paths = [l \in loads |-> << >>]
    /\ tileset_map = [l \in loads |-> EmptyMap]
    /\ int_grid_image_handle = [l \in loads |-> None]
    /\ level_map = [l \in loads |-> EmptyMap]
    /\ new_asset_paths = [l \in loads |-> << >>]
    /\ load_context = [l \in loads |-> NewLoadContext]
    /\ warnings = [l \in loads |-> << >>]
    /\ result = [l \in loads |-> "Pending"]

\* one load of any byte string under any build
Init ==
    /\ features \in Features
    /\ bytes \in [{1} -> ByteStrings]
    /\ InitLoads({1})

\* a build with both capabilities
BothCapabilities == [internal_levels |-> TRUE, external_levels |-> TRUE]

\* the bytes of some other project file
OtherFileBytes ==
    [valid |-> TRUE,
     json |-> [external_levels |-> FALSE, int_grid |-> TRUE,
               tilesets |-> << >>,
               levels |-> << [iid |-> "b", layer_instances |-> Some(<< >>),
                              bg_rel_path |-> Some(BgRelPath),
                              external_rel_path |-> None] >>]]

\* two loads under a build with both capabilities: the second is of the same
\* bytes as the first, or of another file
InitPair ==
    /\ features = BothCapabilities
    /\ \E b \in ByteStrings :
          \E other \in {b, OtherFileBytes} :
              bytes = [l \in {1, 2} |-> IF l = 1 THEN b ELSE other]
    /\ InitLoads({1, 2})

Fail(self, err) ==
    /\ result' = [result EXCEPT ![self] = err]
    /\ pc' = [pc EXCEPT ![self] = "failed"]

\* line 228
Parse(self) ==
    /\ pc[self] = "parse"
    /\ IF bytes[self].valid
       THEN /\ data' = [data EXCEPT ![self] = bytes[self].json]
            /\ pc' = [pc EXCEPT ![self] = "tilesets"]
            /\ UNCHANGED result
       ELSE /\ Fail(self, "ParseError")
            /\ UNCHANGED data
    /\ UNCHANGED <<features, bytes, idx, dependent_asset_paths, tileset_map,
                   int_grid_image_handle, level_map, new_asset_paths,
                   load_context, warnings>>

\* lines 233-245, one iteration
LoadTileset(self) ==
    /\ pc[self] = "tilesets"
    /\ idx[self] <= Len(data[self].tilesets)
    /\ LET tileset == data[self].tilesets[idx[self]]
           r == load_tileset(load_context[self].path, tileset)
       IN  /\ dependent_asset_paths' =
                  [dependent_asset_paths EXCEPT ![self] = @ \o r.paths]
           /\ tileset_map' =
                  [tileset_map EXCEPT ![self] =
                      IF IsSome(r.entry)
                      THEN HashMapInsert(@, tileset.uid, Unwrap(r.entry))
                      ELSE @]
           /\ load_context' =
                  [load_context EXCEPT ![self].requests = @ \o r.requests]
           /\ warnings' = [warnings EXCEPT ![self] = @ \o r.warned]
    /\ idx' = [idx EXCEPT ![self] = @ + 1]
    /\ UNCHANGED <<features, bytes, data, pc, int_grid_image_handle, level_map,
                   new_asset_paths, result>>

\* lines 247-254 (or 280, 275, 301), once the tileset loop has ended: the
\* int grid image, then the branch on external_levels and its cfg attributes
SelectLevels(self) ==
    /\ pc[self] = "tilesets"
    /\ idx[self] > Len(data[self].tilesets)
    /\ LET image == create_int_grid_image(data[self])
       IN  IF IsSome(image)
           THEN /\ load_context' =
                       [load_context EXCEPT ![self].labeled = @ \cup {"int_grid_image"}]
                /\ int_grid_image_handle' =
                       [int_grid_image_handle EXCEPT
                           ![self] = Some(GetHandle(
                               Append(load_context[self].path, "#int_grid_image")))]
           ELSE UNCHANGED <<load_context, int_grid_image_handle>>
    /\ IF CapabilityEnabled(data[self].external_levels)
       THEN /\ level_map' = [level_map EXCEPT ![self] = NewLevelMap(self)]
            /\ idx' = [idx EXCEPT ![self] = 1]
            /\ pc' = [pc EXCEPT ![self] = "levels"]
            /\ UNCHANGED result
       ELSE /\ Fail(self, CapabilityError(data[self].external_levels))
            /\ UNCHANGED <<level_map, idx>>
    /\ UNCHANGED <<features, bytes, data, dependent_asset_paths, tileset_map,
                   new_asset_paths, warnings>>

\* lines 256-264 and 282-290, one iteration
LoadLevel(self) ==
    /\ pc[self] = "levels"
    /\ LevelCursor(self) <= Len(data[self].levels)
    /\ LET item == iter_raw_levels_with_indices(data[self])[LevelCursor(self)]
           r == IF data[self].external_levels
                THEN load_external_level_metadata(
                         load_context[self].path, item.indices, item.level)
                ELSE load_level_metadata(
                         load_context[self].path, item.indices, item.level, TRUE)
       IN  /\ load_context' =
                  [load_context EXCEPT ![self].requests = @ \o r.requests]
           /\ IF r.ok
              THEN /\ level_map' =
                          [level_map EXCEPT ![self] =
                              LevelMapInsert(@, item.level.iid, r.level_metadata)]
                   /\ dependent_asset_paths' =
                          [dependent_asset_paths EXCEPT
                              ![self] = @ \o r.dependent_asset_paths]
                   /\ new_asset_paths' =
                          [new_asset_paths EXCEPT ![self] = r.dependent_asset_paths]
                   /\ idx' = [idx EXCEPT ![self] = @ + 1]
                   /\ UNCHANGED <<pc, result>>
              ELSE /\ Fail(self, r.err)
                   /\ UNCHANGED <<level_map, dependent_asset_paths,
                                  new_asset_paths, idx>>
    /\ UNCHANGED <<features, bytes, data, tileset_map, int_grid_image_handle,
                   warnings>>

\* lines 266-270 or 292-296, then 305-308
Finish(self) ==
    /\ pc[self] = "levels"
    /\ LevelCursor(self) > Len(data[self].levels)
    /\ LET ldtk_project ==
               LdtkProjectNew(
                   NewProjectData(data[self].external_levels, data[self],
                                  level_map[self]),
                   tileset_map[self], int_grid_image_handle[self])
       IN  load_context' =
               [load_context EXCEPT
                   ![self].default_asset =
                       Some([asset |-> ldtk_project,
                             dependencies |-> dependent_asset_paths[self]])]
    /\ result' = [result EXCEPT ![self] = "Ok"]
    /\ pc' = [pc EXCEPT ![self] = "done"]
    /\ UNCHANGED <<features, bytes, data, idx, dependent_asset_paths, tileset_map,
                   int_grid_image_handle, level_map, new_asset_paths, warnings>>

Step(self) ==
    \/ Parse(self)
    \/ LoadTileset(self)
    \/ SelectLevels(self)
    \/ LoadLevel(self)
    \/ Finish(self)

Next == \E self \in {1} : Step(self)

NextPair == \E self \in {1, 2} : Step(self)

Spec == Init /\ [][Next]_vars

SpecPair == InitPair /\ [][NextPair]_vars

-----------------------------------------------------------------------------
(* Vocabulary of the properties.  What is expected of a load is written    *)
(* from the document alone, without the operators of the loader.           *)

\* the load has deserialized its bytes
Parsed(l) == bytes[l].valid /\ pc[l] # "parse"

\* the asset and the dependency list handed to the host by set_default_asset
Handed(l) == Unwrap(load_context[l].default_asset)

LevelPositions(d) == 1..Len(d.levels)
IidsOf(d) == { d.levels[i].iid : i \in LevelPositions(d) }
NullLayerPositions(d) ==
    { i \in LevelPositions(d) : d.levels[i].layer_instances = None }
NullPathPositions(d) ==
    { i \in LevelPositions(d) : d.levels[i].external_rel_path = None }
LastPositionOf(d, iid) ==
    Greatest({ i \in LevelPositions(d) : d.levels[i].iid = iid })

TilesetPositionsWithPath(d) ==
    { i \in 1..Len(d.tilesets) : d.tilesets[i].rel_path # None }

ExpectedTilesetAssetPath == <<"levels", "atlas", "tiles.png">>
ExpectedBgAssetPath == <<"levels", "img", "bg.png">>
ExpectedExternalAssetPath == <<"levels", "world", "level.ldtkl">>

\* the dependency list one level is expected to contribute
ExpectedLevelPaths(d, i) ==
    (IF d.levels[i].bg_rel_path # None THEN << ExpectedBgAssetPath >> ELSE << >>)
        \o (IF d.external_levels THEN << ExpectedExternalAssetPath >> ELSE << >>)

RECURSIVE ExpectedLevelPathsUpTo(_, _)
ExpectedLevelPathsUpTo(d, n) ==
    IF n = 0 THEN << >>
    ELSE ExpectedLevelPathsUpTo(d, n - 1) \o ExpectedLevelPaths(d, n)

ExpectedTilesetPaths(d) ==
    [k \in 1..Cardinality(TilesetPositionsWithPath(d)) |-> ExpectedTilesetAssetPath]

\* the metadata the level at position i is expected to get
ExpectedMetadata(d, i) ==
    LET plain ==
            [bg_image |->
                 IF d.levels[i].bg_rel_path # None
                 THEN << [id |-> ExpectedBgAssetPath] >> ELSE << >>,
             indices |-> [world |-> << >>, level |-> i - 1]]
    IN  IF d.external_levels
        THEN [metadata |-> plain,
              external_handle |-> [id |-> ExpectedExternalAssetPath]]
        ELSE plain

\* keys and positional indices of a level metadata index
IndexContents(external_levels, map) ==
    [k \in DOMAIN map |->
        IF external_levels THEN map[k].metadata.indices ELSE map[k].indices]

ExpectedIndexContents(d) ==
    [k \in IidsOf(d) |-> [world |-> << >>, level |-> LastPositionOf(d, k) - 1]]

\* the load has not handed an asset to the host
NoAssetProduced(l) == load_context[l].default_asset = << >>

\* the load can take no further step
Terminated(l) == pc[l] \in {"done", "failed"}

-----------------------------------------------------------------------------
(* C1 *)

C1_Case ==
    /\ Parsed(1)
    /\ ~data[1].external_levels
    /\ features.internal_levels
    /\ NullLayerPositions(data[1]) # {}

\* C1: an embedded-levels document loaded with the embedded capability and
\* holding a level without layer_instances never loads: the level loop does
\* not pass the first such level, the load ends only by failing there with
\* InternalLevelWithNullLayers, and set_default_asset is never invoked.
C1_NullLayersAbortTheLoad ==
    C1_Case =>
        /\ pc[1] # "done"
        /\ NoAssetProduced(1)
        /\ result[1] \in {"Pending", "InternalLevelWithNullLayers"}
        /\ pc[1] = "levels" => idx[1] <= Least(NullLayerPositions(data[1]))
        /\ pc[1] = "failed" =>
              /\ result[1] = "InternalLevelWithNullLayers"
              /\ idx[1] = Least(NullLayerPositions(data[1]))
        /\ ~ENABLED Next => pc[1] = "failed"

\* the load has failed at a second level, after the first one was indexed
C1_Witness ==
    /\ C1_Case
    /\ pc[1] = "failed"
    /\ Least(NullLayerPositions(data[1])) = 2
    /\ DOMAIN level_map[1] # {}

-----------------------------------------------------------------------------
(* C2 *)

C2_Case ==
    /\ Parsed(1)
    /\ data[1].external_levels
    /\ features.external_levels
    /\ NullPathPositions(data[1]) # {}

\* C2: a separate-file document loaded with the separate-file capability and
\* holding a level without external_rel_path never loads: the level loop
\* does not pass the first such level, the load ends only by failing there
\* with ExternalLevelWithNullPath whatever the level's layer_instances and
\* bg_rel_path, and no asset is produced.
C2_NullPathAbortsTheLoad ==
    C2_Case =>
        /\ pc[1] # "done"
        /\ NoAssetProduced(1)
        /\ result[1] \in {"Pending", "ExternalLevelWithNullPath"}
        /\ pc[1] = "levels" => idx[1] <= Least(NullPathPositions(data[1]))
        /\ pc[1] = "failed" =>
              /\ result[1] = "ExternalLevelWithNullPath"
              /\ idx[1] = Least(NullPathPositions(data[1]))
        /\ ~ENABLED Next => pc[1] = "failed"

\* the load has failed at a second level that has layers and a background
C2_Witness ==
    /\ C2_Case
    /\ pc[1] = "failed"
    /\ Least(NullPathPositions(data[1])) = 2
    /\ data[1].levels[2].layer_instances # None
    /\ data[1].levels[2].bg_rel_path # None

-----------------------------------------------------------------------------
(* C3 *)

C3_Case ==
    /\ Parsed(1)
    /\ \/ data[1].external_levels /\ ~features.external_levels
       \/ ~data[1].external_levels /\ ~features.internal_levels

\* C3: when the capability the document asks for is not built in, the load
\* never enters the level loop and never succeeds: it ends only by failing
\* with ExternalLevelsDisabled (external_levels = true) or
\* InternalLevelsDisabled (external_levels = false), with an empty level
\* map, only tileset handles requested and only tileset paths recorded.
C3_DisabledCapabilityFailsBeforeLevels ==
    C3_Case =>
        /\ pc[1] \notin {"levels", "done"}
        /\ NoAssetProduced(1)
        /\ DOMAIN level_map[1] = {}
        /\ new_asset_paths[1] = << >>
        /\ \A k \in 1..Len(load_context[1].requests) :
              load_context[1].requests[k].origin = "tileset"
        /\ \A k \in 1..Len(dependent_asset_paths[1]) :
              dependent_asset_paths[1][k] = ExpectedTilesetAssetPath
        /\ Len(dependent_asset_paths[1]) <= Cardinality(TilesetPositionsWithPath(data[1]))
        /\ pc[1] = "failed" =>
              result[1] = (IF data[1].external_levels THEN "ExternalLevelsDisabled"
                                                      ELSE "InternalLevelsDisabled")
        /\ ~ENABLED Next => pc[1] = "failed"

\* a disabled separate-file load has failed on a document whose first level
\* has neither layers nor an external path but has a background
C3_Witness ==
    /\ C3_Case
    /\ data[1].external_levels
    /\ pc[1] = "failed"
    /\ Len(data[1].levels) >= 1
    /\ data[1].levels[1].external_rel_path = None
    /\ data[1].levels[1].layer_instances = None
    /\ data[1].levels[1].bg_rel_path # None

-----------------------------------------------------------------------------
(* C4 *)

\* C4: a load has handed an asset to the host exactly when it has returned
\* Ok, and the asset's Project Data is Parent if the document's
\* external_levels flag is true and Standalone if it is false, so that
\* as_parent, respectively as_standalone, does not panic on it.
C4_VariantFollowsTheFlag ==
    /\ (result[1] = "Ok") <=> (load_context[1].default_asset # << >>)
    /\ Len(load_context[1].default_asset) <= 1
    /\ pc[1] = "done" =>
          /\ result[1] = "Ok"
          /\ Handed(1).asset.data.variant \in {"Standalone", "Parent"}
          /\ (Handed(1).asset.data.variant = "Parent") <=> bytes[1].json.external_levels
          /\ (Handed(1).asset.data.variant = "Standalone") <=> ~bytes[1].json.external_levels
          /\ bytes[1].json.external_levels => ~as_parent(Handed(1).asset).panicked
          /\ ~bytes[1].json.external_levels => ~as_standalone(Handed(1).asset).panicked

\* a separate-file document with two levels has loaded as a Parent
C4_Witness ==
    /\ pc[1] = "done"
    /\ bytes[1].json.external_levels
    /\ Len(bytes[1].json.levels) = 2
    /\ Handed(1).asset.data.variant = "Parent"

-----------------------------------------------------------------------------
(* C5 *)

C5_Case == pc[1] = "done" /\ ~bytes[1].json.external_levels

\* C5 as stated: the index of every loaded embedded-levels document has as
\* many entries as the document has levels, and only level iids as keys.
C5_AsStated ==
    C5_Case =>
        /\ Cardinality(DOMAIN Handed(1).asset.data.level_map)
              = Len(bytes[1].json.levels)
        /\ DOMAIN Handed(1).asset.data.level_map \subseteq IidsOf(bytes[1].json)

\* C5 amended: the index of every loaded embedded-levels document has as
\* many entries as the document has distinct level iids (as many as it has
\* levels when no two levels share an iid, fewer otherwise), and its keys are
\* exactly the iids of the document's levels.
C5_OneEntryPerDistinctIid ==
    C5_Case =>
        /\ Cardinality(DOMAIN Handed(1).asset.data.level_map)
              = Cardinality(IidsOf(bytes[1].json))
        /\ DOMAIN Handed(1).asset.data.level_map = IidsOf(bytes[1].json)
        /\ Cardinality(DOMAIN Handed(1).asset.data.level_map)
              <= Len(bytes[1].json.levels)
        /\ (Cardinality(IidsOf(bytes[1].json)) = Len(bytes[1].json.levels)) =>
              Cardinality(DOMAIN Handed(1).asset.data.level_map)
                  = Len(bytes[1].json.levels)

\* an embedded-levels document whose two levels share their iid has loaded
C5_Witness ==
    /\ C5_Case
    /\ Len(bytes[1].json.levels) = 2
    /\ Cardinality(IidsOf(bytes[1].json)) = 1
    /\ Cardinality(DOMAIN Handed(1).asset.data.level_map) = 1

-----------------------------------------------------------------------------
(* C6 *)

\* C6: the dependency list handed to the host is non-empty exactly when some
\* level has a background path, or some tileset has a relative path, or the
\* document is a separate-file one and some level has an external path.
C6_DependenciesNonEmptyIff ==
    pc[1] = "done" =>
        ((Handed(1).dependencies # << >>) <=>
            \/ \E i \in LevelPositions(bytes[1].json) :
                   bytes[1].json.levels[i].bg_rel_path # None
            \/ TilesetPositionsWithPath(bytes[1].json) # {}
            \/ /\ bytes[1].json.external_levels
               /\ \E i \in LevelPositions(bytes[1].json) :
                      bytes[1].json.levels[i].external_rel_path # None)

\* a separate-file document has loaded whose only dependency is the external
\* path of its level
C6_Witness ==
    /\ pc[1] = "done"
    /\ bytes[1].json.external_levels
    /\ Len(bytes[1].json.levels) = 1
    /\ bytes[1].json.levels[1].bg_rel_path = None
    /\ bytes[1].json.tilesets = << >>
    /\ Handed(1).dependencies = << ExpectedExternalAssetPath >>

-----------------------------------------------------------------------------
(* C7 *)

\* the tileset loop of the load has ended
TilesetsLoaded(l) ==
    /\ Parsed(l)
    /\ pc[l] = "tilesets" => idx[l] > Len(data[l].tilesets)

Occurrences(seq, x) == Cardinality({ k \in 1..Len(seq) : seq[k] = x })

\* C7: once the tileset loop has ended the tileset map's keys are the uids of
\* the tilesets with a rel_path, each tileset with a rel_path has contributed
\* one dependency path and one handle request and each tileset without one
\* has contributed none and has been warned about (the icon warning if it has
\* the embedded-icon marker, the null-path warning if not); a load fails only
\* for a disabled capability or a level's null layers or null path; and the
\* asset of a successful load carries that tileset map.
C7_TilesetsSelectiveAndNonFatal ==
    /\ TilesetsLoaded(1) =>
          /\ DOMAIN tileset_map[1]
                = { data[1].tilesets[i].uid : i \in TilesetPositionsWithPath(data[1]) }
          /\ Occurrences(dependent_asset_paths[1], ExpectedTilesetAssetPath)
                = Cardinality(TilesetPositionsWithPath(data[1]))
          /\ Cardinality({ k \in 1..Len(load_context[1].requests) :
                              load_context[1].requests[k].origin = "tileset" })
                = Cardinality(TilesetPositionsWithPath(data[1]))
          /\ Len(warnings[1])
                = Len(data[1].tilesets) - Cardinality(TilesetPositionsWithPath(data[1]))
          /\ Occurrences(warnings[1], <<"internal_icons_ignored", "Tiles">>)
                = Cardinality({ i \in 1..Len(data[1].tilesets) :
                                   /\ data[1].tilesets[i].rel_path = None
                                   /\ data[1].tilesets[i].embed_atlas # None })
          /\ Occurrences(warnings[1], <<"null_relative_path", "Tiles">>)
                = Cardinality({ i \in 1..Len(data[1].tilesets) :
                                   /\ data[1].tilesets[i].rel_path = None
                                   /\ data[1].tilesets[i].embed_atlas = None })
    /\ (Parsed(1) /\ pc[1] = "failed") =>
          \/ /\ result[1] = "InternalLevelsDisabled"
             /\ ~data[1].external_levels /\ ~features.internal_levels
          \/ /\ result[1] = "ExternalLevelsDisabled"
             /\ data[1].external_levels /\ ~features.external_levels
          \/ /\ result[1] = "InternalLevelWithNullLayers"
             /\ NullLayerPositions(data[1]) # {}
          \/ /\ result[1] = "ExternalLevelWithNullPath"
             /\ NullPathPositions(data[1]) # {}
    /\ pc[1] = "done" =>
          DOMAIN Handed(1).asset.tileset_map
              = { data[1].tilesets[i].uid : i \in TilesetPositionsWithPath(data[1]) }

\* a document has loaded whose two tilesets have no rel_path, one of them
\* with the embedded-icon marker and one without
C7_Witness ==
    /\ pc[1] = "done"
    /\ Len(data[1].tilesets) = 2
    /\ TilesetPositionsWithPath(data[1]) = {}
    /\ data[1].tilesets[1].embed_atlas # None
    /\ data[1].tilesets[2].embed_atlas = None
    /\ Len(warnings[1]) = 2

-----------------------------------------------------------------------------
(* C8, under SpecPair *)

\* C8: of two loads under the same build, of the same bytes or of different
\* files, interleaved in any way, each ends as a load of its bytes running
\* alone does: it
\* succeeds exactly when no level lacks what its layout requires, and the
\* index of its asset maps every level iid to the positional indices of the
\* last level of that iid; so two finished loads of the same bytes have the
\* same result and, when they succeed, indexes of the same contents.
C8_LoadsAreIndependent ==
    /\ \A l \in {1, 2} :
          /\ (pc[l] = "done" /\ bytes[l].valid) =>
                /\ IndexContents(bytes[l].json.external_levels,
                                 Handed(l).asset.data.level_map)
                      = ExpectedIndexContents(bytes[l].json)
                /\ IF bytes[l].json.external_levels
                   THEN NullPathPositions(bytes[l].json) = {}
                   ELSE NullLayerPositions(bytes[l].json) = {}
          /\ (pc[l] = "failed" /\ bytes[l].valid) =>
                IF bytes[l].json.external_levels
                THEN NullPathPositions(bytes[l].json) # {}
                ELSE NullLayerPositions(bytes[l].json) # {}
    /\ (bytes[1] = bytes[2] /\ Terminated(1) /\ Terminated(2)) =>
          /\ result[1] = result[2]
          /\ pc[1] = "done" =>
                IndexContents(bytes[1].json.external_levels,
                              Handed(1).asset.data.level_map)
                    = IndexContents(bytes[2].json.external_levels,
                                    Handed(2).asset.data.level_map)

\* both loads of a document with two levels of two iids have succeeded
C8_Witness ==
    /\ bytes[1] = bytes[2]
    /\ pc[1] = "done" /\ pc[2] = "done"
    /\ Len(bytes[1].json.levels) = 2
    /\ Cardinality(DOMAIN Handed(1).asset.data.level_map) = 2
    /\ Cardinality(DOMAIN Handed(2).asset.data.level_map) = 2

-----------------------------------------------------------------------------
(* C9 *)

\* a metadata build of the load has succeeded; the last one was of the level
\* at position idx - 1
C9_Case ==
    /\ Parsed(1)
    /\ idx[1] > 1
    /\ \/ pc[1] \in {"levels", "done"}
       \/ result[1] \in {"InternalLevelWithNullLayers", "ExternalLevelWithNullPath"}

\* C9: the dependency list of a successful metadata build is, for the
\* embedded build, the level's resolved background path if it has one and
\* empty if not (0 or 1 entries) and, for the separate-file build, that list
\* followed by the resolved external level path (1 or 2 entries, the
\* external path last).
C9_PerLevelDependencyList ==
    C9_Case =>
        LET level == data[1].levels[idx[1] - 1]
            paths == new_asset_paths[1]
        IN  IF ~data[1].external_levels
            THEN /\ Len(paths) \in {0, 1}
                 /\ (Len(paths) = 1) <=> (level.bg_rel_path # None)
                 /\ Len(paths) = 1 => paths[1] = ExpectedBgAssetPath
            ELSE /\ Len(paths) \in {1, 2}
                 /\ (Len(paths) = 2) <=> (level.bg_rel_path # None)
                 /\ paths[Len(paths)] = ExpectedExternalAssetPath
                 /\ Len(paths) = 2 => paths[1] = ExpectedBgAssetPath

\* the separate-file build of a level with a background has succeeded
C9_Witness ==
    /\ C9_Case
    /\ data[1].external_levels
    /\ data[1].levels[idx[1] - 1].bg_rel_path # None
    /\ Len(new_asset_paths[1]) = 2

-----------------------------------------------------------------------------
(* C10 *)

\* C10: a load whose capability is built in and whose levels have what the
\* layout requires does not fail, whether or not levels share an iid; the
\* index of a loaded asset has one entry per distinct iid, which is the
\* metadata (positional indices, background handle, external handle) of the
\* last level of that iid; and the dependency list handed to the host is the
\* tileset paths followed by the paths of every level in document order,
\* overwritten levels included.
C10_LastDuplicateWins ==
    /\ ( /\ Parsed(1)
         /\ IF data[1].external_levels
            THEN features.external_levels /\ NullPathPositions(data[1]) = {}
            ELSE features.internal_levels /\ NullLayerPositions(data[1]) = {} )
          => /\ pc[1] # "failed"
             /\ ~ENABLED Next => pc[1] = "done"
    /\ pc[1] = "done" =>
          /\ DOMAIN Handed(1).asset.data.level_map = IidsOf(data[1])
          /\ \A iid \in IidsOf(data[1]) :
                Handed(1).asset.data.level_map[iid]
                    = ExpectedMetadata(data[1], LastPositionOf(data[1], iid))
          /\ Handed(1).dependencies
                = ExpectedTilesetPaths(data[1])
                      \o ExpectedLevelPathsUpTo(data[1], Len(data[1].levels))

\* a separate-file document has loaded whose two levels share their iid,
\* the first with a background and the second without
C10_Witness ==
    /\ pc[1] = "done"
    /\ data[1].external_levels
    /\ Len(data[1].levels) = 2
    /\ data[1].levels[1].iid = data[1].levels[2].iid
    /\ data[1].levels[1].bg_rel_path # None
    /\ data[1].levels[2].bg_rel_path = None
    /\ Handed(1).asset.data.level_map[data[1].levels[1].iid].metadata.bg_image = << >>
    /\ Handed(1).dependencies
          = << ExpectedBgAssetPath, ExpectedExternalAssetPath, ExpectedExternalAssetPath >>

=============================================================================
